---- MODULE Spec2Model ----
(***************************************************************************)
(* Model of the EVM transaction pipeline of signet.rs                      *)
(* (src/evm/evm_transaction.rs): the canonical record EVMTransaction, its  *)
(* RLP encodings build_for_signing / build_with_signature, and the two     *)
(* ingestion paths from_json and the serde deserializer.                   *)
(*                                                                         *)
(* Representation.  A byte is a number in 0..255, a byte string a sequence *)
(* of bytes.  A u64 is its to_be_bytes() array of 8 bytes and a u128 its   *)
(* array of 16 bytes, so that the full width of every integer is kept.  A  *)
(* text is a sequence of one-character strings.  Option<T> is a sequence   *)
(* of length 0 (None) or 1 (Some).                                         *)
(***************************************************************************)
EXTENDS Integers, Sequences, FiniteSets, TLC

\* ------------------------------------------------------------------ bounds

\* most entries of an access list, and most storage keys of one entry
MaxAccess == 2
MaxKeys == 2
\* most zero digits put in front of a numeric string
MaxPad == 1

\* ------------------------------------------------------------------ bytes

RECURSIVE Rep(_, _)
\* n copies of x
Rep(x, n) == IF n = 0 THEN <<>> ELSE Append(Rep(x, n - 1), x)

RECURSIVE ToBE(_, _)
\* to_be_bytes of the small number n at a width of w bytes
ToBE(n, w) == IF w = 0 THEN <<>> ELSE Append(ToBE(n \div 256, w - 1), n % 256)

U64 == 8
U128 == 16

RECURSIVE LeadingZeroBytes(_)
\* leading_zeros() / 8 of a big-endian byte array
LeadingZeroBytes(b) ==
    IF Len(b) = 0 \/ Head(b) # 0 THEN 0 ELSE 1 + LeadingZeroBytes(Tail(b))

\* &buffer[leading_empty_bytes..]
SkipLeading(b) == SubSeq(b, LeadingZeroBytes(b) + 1, Len(b))

\* ------------------------------------------------------------------ RlpStream

\* RlpStream::new(): an empty buffer and no open list
RlpStreamNew == [buffer |-> <<>>, unfinished_lists |-> <<>>]

\* slice.rotate_right(k) on buffer[position..]
RotateRightFrom(buffer, position, k) ==
    LET n == Len(buffer)
    IN  SubSeq(buffer, 1, position)
            \o SubSeq(buffer, n - k + 1, n)
            \o SubSeq(buffer, position + 1, n - k)

\* buffer[index] = b, index counted from 0
SetByte(buffer, index, b) == [buffer EXCEPT ![index + 1] = b]

\* BasicEncoder::insert_size: the size's big-endian bytes without leading
\* zeros are pushed at the end and rotated to `position`
InsertSize(buffer, size, position) ==
    LET be == ToBE(size, 4)
        size_bytes == 4 - LeadingZeroBytes(be)
        extended == buffer \o SkipLeading(be)
    IN  [buffer |-> RotateRightFrom(extended, position, size_bytes),
         inserted |-> size_bytes]

\* BasicEncoder::encode_value / encode_iter
EncodeValue(st, value) ==
    LET len == Len(value)
    IN  IF len = 0
        THEN [st EXCEPT !.buffer = Append(@, 128)]
        ELSE IF len <= 55
        THEN IF len = 1 /\ value[1] < 128
             THEN [st EXCEPT !.buffer = Append(@, value[1])]
             ELSE [st EXCEPT !.buffer = Append(@, 128 + len) \o value]
        ELSE LET reserved == Append(st.buffer, 0)
                 position == Len(reserved)
                 ins == InsertSize(reserved, len, position)
             IN  [st EXCEPT !.buffer =
                     SetByte(ins.buffer, position - 1, 183 + ins.inserted) \o value]

\* AppendUint with the leading zero bytes kept: the whole to_be_bytes() array
AppendUintFixedWidth(st, n) == EncodeValue(st, n)

\* RlpStream::append of a u64 or u128: the big-endian bytes without the
\* leading zero bytes, as a value
AppendUint(st, n) == EncodeValue(st, SkipLeading(n))

\* RlpStream::append of a u8
AppendU8(st, b) ==
    IF b # 0 THEN EncodeValue(st, <<b>>)
    ELSE [st EXCEPT !.buffer = Append(@, 128)]

\* RlpStream::append of a Vec<u8>
AppendBytes(st, bytes) == EncodeValue(st, bytes)

\* RlpStream::begin_unbounded_list: one byte is reserved for the prefix
BeginUnboundedList(st) ==
    LET reserved == Append(st.buffer, 0)
    IN  [buffer |-> reserved,
         unfinished_lists |-> Append(st.unfinished_lists, Len(reserved))]

\* BasicEncoder::insert_list_payload
InsertListPayload(buffer, len, pos) ==
    IF len <= 55
    THEN SetByte(buffer, pos - 1, 192 + len)
    ELSE LET ins == InsertSize(buffer, len, pos)
         IN  SetByte(ins.buffer, pos - 1, 247 + ins.inserted)

\* RlpStream::finalize_unbounded_list
FinalizeUnboundedList(st) ==
    LET depth == Len(st.unfinished_lists)
        position == st.unfinished_lists[depth]
        len == Len(st.buffer) - position
    IN  [buffer |-> InsertListPayload(st.buffer, len, position),
         unfinished_lists |-> SubSeq(st.unfinished_lists, 1, depth - 1)]

\* RlpStream::out
Out(st) == st.buffer

\* ------------------------------------------------------------------ encoding

\* crate::constants::EIP_1559_TYPE
EIP_1559_TYPE == 2

RECURSIVE AppendStorageKeys(_, _)
\* for storage_key in access.1 { rlp_stream.append(&storage_key.to_vec()) }
AppendStorageKeys(st, keys) ==
    IF keys = <<>> THEN st
    ELSE AppendStorageKeys(AppendBytes(st, Head(keys)), Tail(keys))

\* the body of the loop over the access list
AppendAccess(st, access) ==
    LET s1 == BeginUnboundedList(st)
        s2 == AppendBytes(s1, access[1])
        s3 == BeginUnboundedList(s2)
        s4 == AppendStorageKeys(s3, access[2])
        s5 == FinalizeUnboundedList(s4)
    IN  FinalizeUnboundedList(s5)

RECURSIVE AppendAccessList(_, _)
\* for access in access_list { ... }
AppendAccessList(st, access_list) ==
    IF access_list = <<>> THEN st
    ELSE AppendAccessList(AppendAccess(st, Head(access_list)), Tail(access_list))

\* ToVec with the absent address written as 20 zero bytes
ToVecZeroFilled(to) == IF to = <<>> THEN Rep(0, 20) ELSE to[1]

\* self.to.map_or(vec![], |to| to.to_vec())
ToVec(to) == IF to = <<>> THEN <<>> ELSE to[1]

\* encode_fields with the two fee fields in the order of the record's
\* declaration, max_fee_per_gas first
encode_fields_fee_order(self, rlp_stream) ==
    LET to == ToVec(self.to)
        s1 == AppendUint(rlp_stream, self.chain_id)
        s2 == AppendUint(s1, self.nonce)
        s3 == AppendUint(s2, self.max_fee_per_gas)
        s4 == AppendUint(s3, self.max_priority_fee_per_gas)
        s5 == AppendUint(s4, self.gas_limit)
        s6 == AppendBytes(s5, to)
        s7 == AppendUint(s6, self.value)
        s8 == AppendBytes(s7, self.input)
        s9 == BeginUnboundedList(s8)
        s10 == AppendAccessList(s9, self.access_list)
    IN  FinalizeUnboundedList(s10)

\* EVMTransaction::encode_fields
encode_fields(self, rlp_stream) ==
    LET to == ToVec(self.to)
        s1 == AppendUint(rlp_stream, self.chain_id)
        s2 == AppendUint(s1, self.nonce)
        s3 == AppendUint(s2, self.max_priority_fee_per_gas)
        s4 == AppendUint(s3, self.max_fee_per_gas)
        s5 == AppendUint(s4, self.gas_limit)
        s6 == AppendBytes(s5, to)
        s7 == AppendUint(s6, self.value)
        s8 == AppendBytes(s7, self.input)
        s9 == BeginUnboundedList(s8)
        s10 == AppendAccessList(s9, self.access_list)
    IN  FinalizeUnboundedList(s10)

\* EVMTransaction::build_for_signing
build_for_signing(self) ==
    LET s1 == AppendU8(RlpStreamNew, EIP_1559_TYPE)
        s2 == BeginUnboundedList(s1)
        s3 == encode_fields(self, s2)
        s4 == FinalizeUnboundedList(s3)
    IN  Out(s4)

\* build_with_signature with r and s appended as integers, their leading
\* zero bytes dropped
build_with_signature_integers(self, signature) ==
    LET s1 == AppendU8(RlpStreamNew, EIP_1559_TYPE)
        s2 == BeginUnboundedList(s1)
        s3 == encode_fields(self, s2)
        s4 == AppendUint(s3, signature.v)
        s5 == AppendUint(s4, signature.r)
        s6 == AppendUint(s5, signature.s)
        s7 == FinalizeUnboundedList(s6)
    IN  Out(s7)

\* build_with_signature with the outer list finalized before v, r, s are
\* appended
build_with_signature_outside(self, signature) ==
    LET s1 == AppendU8(RlpStreamNew, EIP_1559_TYPE)
        s2 == BeginUnboundedList(s1)
        s3 == encode_fields(self, s2)
        s4 == FinalizeUnboundedList(s3)
        s5 == AppendUint(s4, signature.v)
        s6 == AppendBytes(s5, signature.r)
        s7 == AppendBytes(s6, signature.s)
    IN  Out(s7)

\* EVMTransaction::build_with_signature
build_with_signature(self, signature) ==
    LET s1 == AppendU8(RlpStreamNew, EIP_1559_TYPE)
        s2 == BeginUnboundedList(s1)
        s3 == encode_fields(self, s2)
        s4 == AppendUint(s3, signature.v)
        s5 == AppendBytes(s4, signature.r)
        s6 == AppendBytes(s5, signature.s)
        s7 == FinalizeUnboundedList(s6)
    IN  Out(s7)

\* ------------------------------------------------------------------ texts and numbers

\* the characters of a digit, by value: char::to_digit accepts both cases
LowerDigits ==
    <<"0", "1", "2", "3", "4", "5", "6", "7", "8", "9",
      "a", "b", "c", "d", "e", "f">>
UpperDigits ==
    <<"0", "1", "2", "3", "4", "5", "6", "7", "8", "9",
      "A", "B", "C", "D", "E", "F">>

\* char::to_digit(radix): the digit's value, or -1 for None
ToDigit(c, radix) ==
    IF \E i \in 1..radix : LowerDigits[i] = c
    THEN (CHOOSE i \in 1..radix : LowerDigits[i] = c) - 1
    ELSE IF \E i \in 1..radix : UpperDigits[i] = c
    THEN (CHOOSE i \in 1..radix : UpperDigits[i] = c) - 1
    ELSE -1

\* str::strip_prefix("0x"): Some(rest) or None
StripPrefix0x(text) ==
    IF Len(text) >= 2 /\ text[1] = "0" /\ text[2] = "x"
    THEN <<SubSeq(text, 3, Len(text))>>
    ELSE <<>>

RECURSIVE MulAdd(_, _, _)
\* b * m + c on a big-endian array of fixed width: the array of the low
\* bytes and the carry out of the width
MulAdd(b, m, c) ==
    IF b = <<>> THEN [val |-> <<>>, carry |-> c]
    ELSE LET n == Len(b)
             t == b[n] * m + c
             hi == MulAdd(SubSeq(b, 1, n - 1), m, t \div 256)
         IN  [val |-> Append(hi.val, t % 256), carry |-> hi.carry]

RECURSIVE AccumulateWrapping(_, _, _)
\* the loop of from_str_radix with wrapping_mul and wrapping_add
AccumulateWrapping(digits, result, radix) ==
    IF digits = <<>> THEN [ok |-> TRUE, val |-> result]
    ELSE LET x == ToDigit(Head(digits), radix)
             mul == MulAdd(result, radix, 0)
             add == MulAdd(mul.val, 1, x)
         IN  IF x < 0 \/ Len(add.val) # Len(result)
             THEN [ok |-> FALSE, val |-> <<>>]
             ELSE AccumulateWrapping(Tail(digits), add.val, radix)

RECURSIVE Accumulate(_, _, _)
\* the loop of from_str_radix: result = result.checked_mul(radix)? and then
\* result.checked_add(digit)?, over the digits
Accumulate(digits, result, radix) ==
    IF digits = <<>> THEN [ok |-> TRUE, val |-> result]
    ELSE LET x == ToDigit(Head(digits), radix)
             mul == MulAdd(result, radix, 0)
             add == MulAdd(mul.val, 1, x)
         IN  IF x < 0 \/ mul.carry # 0 \/ add.carry # 0
             THEN [ok |-> FALSE, val |-> <<>>]
             ELSE Accumulate(Tail(digits), add.val, radix)

\* <unsigned>::from_str_radix(src, radix) at a width of w bytes: Empty,
\* InvalidDigit and PosOverflow are the errors
FromStrRadix(src, radix, w) ==
    IF src = <<>> THEN [ok |-> FALSE, val |-> <<>>]
    ELSE IF Len(src) = 1 /\ src[1] \in {"+", "-"} THEN [ok |-> FALSE, val |-> <<>>]
    ELSE Accumulate(IF src[1] = "+" THEN Tail(src) ELSE src, Rep(0, w), radix)

\* parse_u64
parse_u64(value) ==
    IF StripPrefix0x(value) = <<>>
    THEN FromStrRadix(value, 10, U64)
    ELSE FromStrRadix(StripPrefix0x(value)[1], 16, U64)

\* parse_u128
parse_u128(value) ==
    IF StripPrefix0x(value) = <<>>
    THEN FromStrRadix(value, 10, U128)
    ELSE FromStrRadix(StripPrefix0x(value)[1], 16, U128)

RECURSIVE TrimStart(_)
TrimStart(text) ==
    IF text # <<>> /\ Head(text) = " " THEN TrimStart(Tail(text)) ELSE text

RECURSIVE TrimEnd(_)
TrimEnd(text) ==
    IF text # <<>> /\ text[Len(text)] = " "
    THEN TrimEnd(SubSeq(text, 1, Len(text) - 1)) ELSE text

\* str::trim
Trim(text) == TrimEnd(TrimStart(text))

\* hex::decode: an odd length or a character that is no hex digit is an error
HexDecode(text) ==
    IF Len(text) % 2 # 0 \/ \E i \in 1..Len(text) : ToDigit(text[i], 16) < 0
    THEN [ok |-> FALSE, val |-> <<>>]
    ELSE [ok |-> TRUE,
          val |-> [i \in 1..(Len(text) \div 2) |->
                      16 * ToDigit(text[2 * i - 1], 16) + ToDigit(text[2 * i], 16)]]

\* evm::utils::parse_eth_address: the 20 bytes of 40 hex digits; it panics
\* (ok = FALSE) on anything else
parse_eth_address(address) ==
    LET decoded == HexDecode(address)
    IN  IF decoded.ok /\ Len(decoded.val) = 20 THEN decoded
        ELSE [ok |-> FALSE, val |-> <<>>]

\* ------------------------------------------------------------------ JSON values

\* a serde_json::Value: t is its variant; s the text of a string; n the u64
\* of a non-negative integer; a the elements of an array.  "absent" marks a
\* key the object does not hold.
JValue(t, s, n, a) == [t |-> t, s |-> s, n |-> n, a |-> a]
Absent == JValue("absent", <<>>, <<>>, <<>>)
JNull == JValue("null", <<>>, <<>>, <<>>)
JString(s) == JValue("string", s, <<>>, <<>>)
JPosInt(n) == JValue("posint", <<>>, n, <<>>)
JNegInt == JValue("negint", <<>>, <<>>, <<>>)
JFloat == JValue("float", <<>>, <<>>, <<>>)
JArray(a) == JValue("array", <<>>, <<>>, a)

\* the number serde_json builds for a non-negative integer literal, given by
\* its 16 big-endian bytes: PosInt(u64) when it fits a u64, and a Float (an
\* f64) when it does not; n of the Float keeps the integer the literal
\* spells, which no code reads
JLiteral(n) ==
    IF \A i \in 1..(U128 - U64) : n[i] = 0
    THEN JPosInt(SubSeq(n, U128 - U64 + 1, U128))
    ELSE JValue("float", <<>>, n, <<>>)

\* the keys from_json reads, and the keys the derived deserializer reads
Keys ==
    {"to", "nonce", "value", "input",
     "gasLimit", "maxPriorityFeePerGas", "maxFeePerGas", "chainId", "accessList",
     "gas_limit", "max_priority_fee_per_gas", "max_fee_per_gas", "chain_id",
     "access_list"}

\* v["key"]: Null when the object does not hold the key
Index(doc, key) == IF doc.obj[key].t = "absent" THEN JNull ELSE doc.obj[key]

\* Value::as_str: Some(text) or None
AsStr(v) == IF v.t = "string" THEN <<v.s>> ELSE <<>>

\* Value::as_str().unwrap_or_default()
AsStrOrDefault(v) == IF v.t = "string" THEN v.s ELSE <<>>

\* ------------------------------------------------------------------ from_json

\* the outcome of an ingestion: Ok with the record, Err, or a panic
Outcome(op, kind, rec, msg) == [op |-> op, kind |-> kind, rec |-> rec, msg |-> msg]

\* Required with the number 0 for a key that holds no string
RequiredOrDefault(doc, key, w) ==
    LET str == AsStr(Index(doc, key))
        parsed == IF w = U64 THEN parse_u64(str[1]) ELSE parse_u128(str[1])
    IN  IF str = <<>> THEN [ok |-> TRUE, val |-> Rep(0, w), msg |-> ""]
        ELSE IF ~parsed.ok
        THEN [ok |-> FALSE, val |-> <<>>,
              msg |-> IF w = U64 THEN "should be a valid u64"
                      ELSE "should be a valid u128"]
        ELSE [ok |-> TRUE, val |-> parsed.val, msg |-> ""]

\* v[key].as_str().expect("<key> should be provided") and then
\* parse(..).expect("<key> should be a valid <type>"): the number, or the
\* message of the panic
Required(doc, key, w) ==
    LET str == AsStr(Index(doc, key))
        parsed == IF w = U64 THEN parse_u64(str[1]) ELSE parse_u128(str[1])
    IN  IF str = <<>> THEN [ok |-> FALSE, val |-> <<>>, msg |-> "should be provided"]
        ELSE IF ~parsed.ok
        THEN [ok |-> FALSE, val |-> <<>>,
              msg |-> IF w = U64 THEN "should be a valid u64"
                      ELSE "should be a valid u128"]
        ELSE [ok |-> TRUE, val |-> parsed.val, msg |-> ""]

\* the empty text in place of the 40 zeros
EmptyAddressText == <<>>

\* the zero address that from_json parses when `to` has no 0x prefix
ZeroAddressText == Rep("0", 40)

\* EVMTransaction::from_json
from_json(doc) ==
    LET to == AsStrOrDefault(Index(doc, "to"))
        to_parsed == parse_eth_address(
            IF StripPrefix0x(to) = <<>> THEN ZeroAddressText ELSE StripPrefix0x(to)[1])
        nonce == Required(doc, "nonce", U64)
        value == Required(doc, "value", U128)
        gas_limit == Required(doc, "gasLimit", U128)
        max_priority_fee_per_gas == Required(doc, "maxPriorityFeePerGas", U128)
        max_fee_per_gas == Required(doc, "maxFeePerGas", U128)
        chain_id == Required(doc, "chainId", U64)
        input_str == AsStrOrDefault(Index(doc, "input"))
        input == HexDecode(
            IF StripPrefix0x(input_str) = <<>> THEN <<>> ELSE StripPrefix0x(input_str)[1])
        Panic(key, msg) == Outcome("from_json", "Panic", <<>>, <<key, msg>>)
    IN  IF ~doc.valid THEN Outcome("from_json", "Err", <<>>, <<"json", "syntax">>)
        ELSE IF ~to_parsed.ok THEN Panic("to", "address should be hex")
        ELSE IF ~nonce.ok THEN Panic("nonce", nonce.msg)
        ELSE IF ~value.ok THEN Panic("value", value.msg)
        ELSE IF ~gas_limit.ok THEN Panic("gasLimit", gas_limit.msg)
        ELSE IF ~max_priority_fee_per_gas.ok
        THEN Panic("maxPriorityFeePerGas", max_priority_fee_per_gas.msg)
        ELSE IF ~max_fee_per_gas.ok THEN Panic("maxFeePerGas", max_fee_per_gas.msg)
        ELSE IF ~chain_id.ok THEN Panic("chainId", chain_id.msg)
        ELSE IF ~input.ok THEN Panic("input", "input should be hex")
        ELSE Outcome("from_json", "Ok",
                <<[chain_id |-> chain_id.val,
                   nonce |-> nonce.val,
                   to |-> <<to_parsed.val>>,
                   value |-> value.val,
                   input |-> input.val,
                   gas_limit |-> gas_limit.val,
                   max_fee_per_gas |-> max_fee_per_gas.val,
                   max_priority_fee_per_gas |-> max_priority_fee_per_gas.val,
                   access_list |-> <<>>]>>,
                <<>>)

\* ------------------------------------------------------------------ serde

\* `n as u8` of a u64: its lowest byte
AsU8(n) == n[Len(n)]

\* deserialize_address with the strings parsed as u16 and cast to u8, as the
\* numbers are
deserialize_address_cast(value) ==
    LET arr == value.a
        out_numbers == [i \in 1..Len(arr) |-> AsU8(arr[i].n)]
        parsed == [i \in 1..Len(arr) |-> FromStrRadix(Trim(arr[i].s), 10, 2)]
    IN  IF value.t = "null" THEN [ok |-> TRUE, val |-> <<>>]
        ELSE IF value.t # "array" THEN [ok |-> FALSE, val |-> <<>>]
        ELSE IF Len(arr) # 20 THEN [ok |-> FALSE, val |-> <<>>]
        ELSE IF \A i \in 1..Len(arr) : arr[i].t = "posint"
        THEN [ok |-> TRUE, val |-> <<out_numbers>>]
        ELSE IF \A i \in 1..Len(arr) : arr[i].t = "string"
        THEN IF \E i \in 1..Len(arr) : ~parsed[i].ok
             THEN [ok |-> FALSE, val |-> <<>>]
             ELSE [ok |-> TRUE, val |-> <<[i \in 1..Len(arr) |-> AsU8(parsed[i].val)]>>]
        ELSE [ok |-> FALSE, val |-> <<>>]

\* deserialize_address
deserialize_address(value) ==
    LET arr == value.a
        out_numbers == [i \in 1..Len(arr) |-> AsU8(arr[i].n)]
        parsed == [i \in 1..Len(arr) |-> FromStrRadix(Trim(arr[i].s), 10, 1)]
    IN  IF value.t = "null" THEN [ok |-> TRUE, val |-> <<>>]
        ELSE IF value.t # "array" THEN [ok |-> FALSE, val |-> <<>>]
        ELSE IF Len(arr) # 20 THEN [ok |-> FALSE, val |-> <<>>]
        ELSE IF \A i \in 1..Len(arr) : arr[i].t = "posint"
        THEN [ok |-> TRUE, val |-> <<out_numbers>>]
        ELSE IF \A i \in 1..Len(arr) : arr[i].t = "string"
        THEN IF \E i \in 1..Len(arr) : ~parsed[i].ok
             THEN [ok |-> FALSE, val |-> <<>>]
             ELSE [ok |-> TRUE, val |-> <<[i \in 1..Len(arr) |-> parsed[i].val[1]]>>]
        ELSE [ok |-> FALSE, val |-> <<>>]

\* deserialize_u64: visit_u64 of a non-negative JSON integer, visit_str of a
\* string; every other value is the visitor's invalid-type error
deserialize_u64(value) ==
    IF value.t = "posint" THEN [ok |-> TRUE, val |-> value.n]
    ELSE IF value.t = "string" THEN FromStrRadix(value.s, 10, U64)
    ELSE [ok |-> FALSE, val |-> <<>>]

\* deserialize_u128: visit_u64 widens the integer (`value as u128`)
deserialize_u128(value) ==
    IF value.t = "posint" THEN [ok |-> TRUE, val |-> Rep(0, U128 - U64) \o value.n]
    ELSE IF value.t = "string" THEN FromStrRadix(value.s, 10, U128)
    ELSE [ok |-> FALSE, val |-> <<>>]

\* Deserialize of a sequence of u8 (Vec<u8> with len = -1, [u8; len]
\* otherwise): an array of integers of at most 255
DeserializeBytes(value, len) ==
    IF /\ value.t = "array"
       /\ len < 0 \/ Len(value.a) = len
       /\ \A i \in 1..Len(value.a) :
            /\ value.a[i].t = "posint"
            /\ \A j \in 1..(U64 - 1) : value.a[i].n[j] = 0
    THEN [ok |-> TRUE, val |-> [i \in 1..Len(value.a) |-> AsU8(value.a[i].n)]]
    ELSE [ok |-> FALSE, val |-> <<>>]

\* Deserialize of AccessList = Vec<(Address, Vec<[u8; 32]>)>
DeserializeAccessList(value) ==
    LET Keys32(v) == [j \in 1..Len(v.a) |-> DeserializeBytes(v.a[j], 32)]
        EntryOk(e) ==
            /\ e.t = "array"
            /\ Len(e.a) = 2
            /\ DeserializeBytes(e.a[1], 20).ok
            /\ e.a[2].t = "array"
            /\ \A j \in 1..Len(e.a[2].a) : Keys32(e.a[2])[j].ok
        Entry(e) ==
            <<DeserializeBytes(e.a[1], 20).val,
              [j \in 1..Len(e.a[2].a) |-> Keys32(e.a[2])[j].val]>>
    IN  IF value.t = "array" /\ \A i \in 1..Len(value.a) : EntryOk(value.a[i])
        THEN [ok |-> TRUE, val |-> [i \in 1..Len(value.a) |-> Entry(value.a[i])]]
        ELSE [ok |-> FALSE, val |-> <<>>]

\* <EVMTransaction as Deserialize>::deserialize, as derived: every field is
\* required, an unknown key is ignored, and the first failing field is the
\* error
deserialize(doc) ==
    LET Has(key) == doc.obj[key].t # "absent"
        chain_id == deserialize_u64(doc.obj["chain_id"])
        nonce == deserialize_u64(doc.obj["nonce"])
        to == deserialize_address(doc.obj["to"])
        value == deserialize_u128(doc.obj["value"])
        input == DeserializeBytes(doc.obj["input"], -1)
        gas_limit == deserialize_u128(doc.obj["gas_limit"])
        max_fee_per_gas == deserialize_u128(doc.obj["max_fee_per_gas"])
        max_priority_fee_per_gas == deserialize_u128(doc.obj["max_priority_fee_per_gas"])
        access_list == DeserializeAccessList(doc.obj["access_list"])
        Failed(key, res) == ~Has(key) \/ ~res.ok
        Err(key) ==
            Outcome("deserialize", "Err", <<>>,
                    <<key, IF Has(key) THEN "invalid" ELSE "missing field">>)
    IN  IF ~doc.valid THEN Outcome("deserialize", "Err", <<>>, <<"json", "syntax">>)
        ELSE IF Failed("chain_id", chain_id) THEN Err("chain_id")
        ELSE IF Failed("nonce", nonce) THEN Err("nonce")
        ELSE IF Failed("to", to) THEN Err("to")
        ELSE IF Failed("value", value) THEN Err("value")
        ELSE IF Failed("input", input) THEN Err("input")
        ELSE IF Failed("gas_limit", gas_limit) THEN Err("gas_limit")
        ELSE IF Failed("max_fee_per_gas", max_fee_per_gas) THEN Err("max_fee_per_gas")
        ELSE IF Failed("max_priority_fee_per_gas", max_priority_fee_per_gas)
        THEN Err("max_priority_fee_per_gas")
        ELSE IF Failed("access_list", access_list) THEN Err("access_list")
        ELSE Outcome("deserialize", "Ok",
                <<[chain_id |-> chain_id.val,
                   nonce |-> nonce.val,
                   to |-> to.val,
                   value |-> value.val,
                   input |-> input.val,
                   gas_limit |-> gas_limit.val,
                   max_fee_per_gas |-> max_fee_per_gas.val,
                   max_priority_fee_per_gas |-> max_priority_fee_per_gas.val,
                   access_list |-> access_list.val]>>,
                <<>>)

\* ------------------------------------------------------------------ inputs

\* a number given by its significant bytes, at a width of w bytes
Wide(bytes, w) == Rep(0, w - Len(bytes)) \o bytes

\* the address and the integers of the tests of the repository
AddrD8 ==
    <<216, 218, 107, 242, 105, 100, 175, 157, 126, 237,
      158, 3, 229, 52, 21, 211, 122, 169, 96, 69>>
Addr60 ==
    <<96, 105, 166, 195, 44, 246, 145, 245, 152, 47,
      235, 174, 79, 175, 138, 111, 58, 178, 240, 246>>
ZeroAddress == Rep(0, 20)
MAX_FEE_PER_GAS == <<4, 168, 23, 200, 0>>
MAX_PRIORITY_FEE_PER_GAS == <<59, 154, 202, 0>>
GAS_LIMIT == <<82, 8>>
TestValue == <<35, 134, 242, 111, 193, 0, 0>>
\* the first 4 and the last 52 bytes of a call's data: 56 bytes, a long string
CallData == <<162, 44, 180, 101>> \o Rep(0, 12) \o Rep(94, 20) \o Rep(0, 20)

Tos == {<<>>, <<AddrD8>>, <<ZeroAddress>>}
Inputs == {<<>>, <<5>>, <<0>>, <<200>>, CallData}
Values == {Wide(<<>>, U128), Wide(<<1>>, U128), Wide(TestValue, U128)}

\* the i-th entry of an access list, with k storage keys; the first address
\* and the first key begin with a zero byte
StorageKey(i, j) == <<(i - 1) * 16 + (j - 1)>> \o Rep(171, 30) \o <<j>>
AccessEntry(i, k) ==
    <<(<<i - 1>> \o Rep(187, 18) \o <<i>>), [j \in 1..k |-> StorageKey(i, j)]>>
AccessLists ==
    {[i \in 1..n |-> AccessEntry(i, k)] : n \in 0..MaxAccess, k \in 0..MaxKeys}

BaseRecord ==
    [chain_id |-> Wide(<<1>>, U64),
     nonce |-> Wide(<<>>, U64),
     to |-> <<AddrD8>>,
     value |-> Wide(TestValue, U128),
     input |-> <<>>,
     gas_limit |-> Wide(GAS_LIMIT, U128),
     max_fee_per_gas |-> Wide(MAX_FEE_PER_GAS, U128),
     max_priority_fee_per_gas |-> Wide(MAX_PRIORITY_FEE_PER_GAS, U128),
     access_list |-> <<>>]

\* integers of the 64-bit fields and of the 128-bit fields: zero, one, a
\* byte with its high bit set, a zero byte inside, and the largest
Ints64 ==
    {Wide(<<>>, U64), Wide(<<1>>, U64), Wide(<<128>>, U64),
     Wide(<<1, 0, 2>>, U64), Rep(255, U64)}
Ints128 ==
    {Wide(<<>>, U128), Wide(<<1>>, U128), Wide(<<127>>, U128),
     Wide(<<1, 0>>, U128), Rep(255, U128)}

\* records a caller constructs directly
Records ==
    {[BaseRecord EXCEPT !.to = t, !.input = i, !.access_list = a] :
        t \in Tos, i \in Inputs, a \in AccessLists}
    \cup {[BaseRecord EXCEPT !.chain_id = n] : n \in Ints64}
    \cup {[BaseRecord EXCEPT !.nonce = n] : n \in Ints64}
    \cup {[BaseRecord EXCEPT !.value = n] : n \in Ints128 \cup Values}
    \cup {[BaseRecord EXCEPT !.gas_limit = n] : n \in Ints128}
    \cup {[BaseRecord EXCEPT !.max_fee_per_gas = n] : n \in Ints128}
    \cup {[BaseRecord EXCEPT !.max_priority_fee_per_gas = n] : n \in Ints128}

\* the scalars of the signature of the tests, one scalar below 2^248 and
\* byte strings of other lengths
ScalarR ==
    <<132, 12, 252, 87, 40, 69, 245, 120, 110, 112, 41, 132, 194, 165, 130, 82,
      140, 173, 75, 73, 178, 161, 11, 157, 177, 190, 127, 202, 144, 5, 133, 101>>
ScalarS ==
    <<37, 231, 16, 156, 235, 152, 22, 141, 149, 176, 155, 24, 187, 246, 182, 133,
      19, 14, 5, 98, 242, 51, 135, 125, 73, 43, 148, 238, 224, 197, 182, 209>>
SmallScalar == <<0>> \o Rep(17, 31)
Scalars == {ScalarR, ScalarS, SmallScalar}
ByteStrings == Scalars \cup {<<>>, <<0>>, <<9>>, <<0, 9>>, Rep(1, 33)}

Signatures ==
    {[v |-> Wide(<<p>>, U64), r |-> r, s |-> s] :
        p \in {0, 1}, r \in Scalars, s \in Scalars}
    \cup {[v |-> v, r |-> ScalarR, s |-> ScalarS] : v \in Ints64}
    \cup {[v |-> Wide(<<27>>, U64), r |-> r, s |-> ScalarS] : r \in ByteStrings}
    \cup {[v |-> Wide(<<27>>, U64), r |-> ScalarR, s |-> s] : s \in ByteStrings}

\* ------------------------------------------------------------------ documents

\* the text of a sequence of digits (of nibbles), and with the 0x prefix
Dec(ds) == [i \in 1..Len(ds) |-> LowerDigits[ds[i] + 1]]
Hex(ns) == <<"0", "x">> \o Dec(ns)
HexUpper(ns) == <<"0", "x">> \o [i \in 1..Len(ns) |-> UpperDigits[ns[i] + 1]]

\* the 2 * Len(bytes) nibbles of a byte string
Nibbles(bytes) ==
    [i \in 1..(2 * Len(bytes)) |->
        IF i % 2 = 1 THEN bytes[(i + 1) \div 2] \div 16 ELSE bytes[i \div 2] % 16]

\* the decimal digits of a byte
ByteDigits(n) ==
    IF n < 10 THEN <<n>>
    ELSE IF n < 100 THEN <<n \div 10, n % 10>>
    ELSE <<n \div 100, (n \div 10) % 10, n % 10>>

\* the spellings of a number given by its decimal digits and its nibbles,
\* with up to MaxPad zero digits in front
Spellings(ds, ns) ==
    {Dec(Rep(0, k) \o ds) : k \in 0..MaxPad} \cup {Hex(Rep(0, k) \o ns) : k \in 0..MaxPad}

\* 0, 1, 66, 11155111, 2^64 - 1
Fit64 ==
    Spellings(<<0>>, <<0>>) \cup Spellings(<<1>>, <<1>>)
    \cup Spellings(<<6, 6>>, <<4, 2>>)
    \cup Spellings(<<1, 1, 1, 5, 5, 1, 1, 1>>, <<10, 10, 3, 6, 10, 7>>)
    \cup Spellings(<<1, 8, 4, 4, 6, 7, 4, 4, 0, 7, 3, 7, 0, 9, 5, 5, 1, 6, 1, 5>>,
                   Rep(15, 16))
\* 2^64, 3 * 2^64 + 66, 10^20
Over64 ==
    Spellings(<<1, 8, 4, 4, 6, 7, 4, 4, 0, 7, 3, 7, 0, 9, 5, 5, 1, 6, 1, 6>>,
              <<1>> \o Rep(0, 16))
    \cup Spellings(<<5, 5, 3, 4, 0, 2, 3, 2, 2, 2, 1, 1, 2, 8, 6, 5, 4, 9, 1, 4>>,
                   <<3>> \o Rep(0, 14) \o <<4, 2>>)
    \cup Spellings(<<1>> \o Rep(0, 20),
                   <<5, 6, 11, 12, 7, 5, 14, 2, 13, 6, 3, 1, 0, 0, 0, 0, 0>>)
\* 2^128 - 1
Max128 ==
    Spellings(<<3, 4, 0, 2, 8, 2, 3, 6, 6, 9, 2, 0, 9, 3, 8, 4, 6, 3, 4, 6,
                3, 3, 7, 4, 6, 0, 7, 4, 3, 1, 7, 6, 8, 2, 1, 1, 4, 5, 5>>,
              Rep(15, 32))
\* 2^128, 10^39
Over128 ==
    Spellings(<<3, 4, 0, 2, 8, 2, 3, 6, 6, 9, 2, 0, 9, 3, 8, 4, 6, 3, 4, 6,
                3, 3, 7, 4, 6, 0, 7, 4, 3, 1, 7, 6, 8, 2, 1, 1, 4, 5, 6>>,
              <<1>> \o Rep(0, 32))
    \cup Spellings(<<1>> \o Rep(0, 39),
                   <<2, 15, 0, 5, 0, 15, 14, 9, 3, 8, 9, 4, 3, 10, 12, 12, 4, 5,
                     15, 6, 5, 5, 6, 8>> \o Rep(0, 9))

\* texts that are no plain spelling of a number
OtherTexts ==
    {<<>>, <<"0", "x">>, <<"a", "b", "c">>, <<"-", "1">>, <<"1", "2", "a">>,
     <<"0", "X", "4", "2">>, <<"+", "6", "6">>, <<"0", "x", "+", "4", "2">>,
     <<" ", "6", "6">>, <<"0", "x", "g">>, <<"+">>, HexUpper(<<10, 11>>)}

\* values of a key that from_json reads as a 64-bit and as a 128-bit number
Scalars64 ==
    {JString(t) : t \in Fit64 \cup Over64 \cup OtherTexts}
    \cup {Absent, JNull, JPosInt(Wide(<<1>>, U64))}
Scalars128 ==
    {JString(t) : t \in Fit64 \cup Over64 \cup Max128 \cup Over128 \cup OtherTexts}
    \cup {Absent, JNull, JPosInt(Wide(<<1>>, U64))}
FewScalars ==
    {JString(t) : t \in {Dec(<<6, 6>>), Hex(<<4, 2>>), Hex(<<1>> \o Rep(0, 32)),
                         <<"a", "b", "c">>}}
    \cup {Absent}

\* the three encodings of an address
HexAddress(addr) == JString(Hex(Nibbles(addr)))
NumberArray(bytes) == JArray([i \in 1..Len(bytes) |-> JPosInt(Wide(<<bytes[i]>>, U64))])
StringArray(bytes) == JArray([i \in 1..Len(bytes) |-> JString(Dec(ByteDigits(bytes[i])))])
Encodings(addr) == {HexAddress(addr), NumberArray(addr), StringArray(addr)}
Addresses == {Addr60, ZeroAddress}

\* elements put into an array of an address
OddNumbers ==
    {JPosInt(Wide(<<1, 0>>, U64)), JPosInt(Wide(<<1, 44>>, U64)),
     JPosInt(Rep(255, U64)), JNegInt, JFloat, JNull}
OddStrings ==
    {JString(t) : t \in {Dec(<<2, 5, 6>>), Dec(<<2, 5, 5>>), Dec(<<0, 0, 7>>),
                         Dec(<<1, 0, 0, 0>>), <<"a", "b", "c">>, <<>>, <<"-", "1">>,
                         <<"+", "5">>, <<" ", "5", " ">>, <<"5", " ", "5">>,
                         <<"0", "x", "1", "0">>, <<"1", ".", "5">>}}

\* arrays of an address with one element replaced, or of another length
Arrays(addr) ==
    {[NumberArray(addr) EXCEPT !.a[i] = e] :
        i \in {1, 20}, e \in OddNumbers \cup OddStrings}
    \cup {[StringArray(addr) EXCEPT !.a[i] = e] :
        i \in {1, 20}, e \in OddNumbers \cup OddStrings \cup {JPosInt(Wide(<<7>>, U64))}}
    \cup {JArray(SubSeq(arr.a, 1, n)) :
        arr \in {NumberArray(addr), StringArray(addr)}, n \in {0, 19}}
    \cup {JArray(Append(arr.a, arr.a[1])) :
        arr \in {NumberArray(addr), StringArray(addr)}}

\* values of the key `to`
ToValues ==
    UNION {Encodings(addr) : addr \in Addresses}
    \cup Arrays(Addr60)
    \cup {Absent, JNull, JPosInt(Wide(<<1>>, U64)),
          JString(Dec(Nibbles(Addr60))), JString(HexUpper(Nibbles(Addr60))),
          JString(Hex(Nibbles(SubSeq(Addr60, 1, 19)))), JString(<<"0", "x">>),
          JString(<<>>)}

\* values of the key `input`
InputValues ==
    {Absent, JNull, JString(Hex(<<6, 10, 6, 2, 7, 8, 4, 2>>)),
     JString(Dec(<<6, 10, 6, 2>>)), JString(Hex(<<6, 10, 6>>)),
     JString(<<"0", "x">>), JString(<<>>), JString(<<"0", "x", "z", "z">>),
     JArray(<<>>), NumberArray(<<1, 2, 3>>),
     JArray(<<JPosInt(Wide(<<1, 0>>, U64))>>), JArray(<<JString(<<"1">>)>>)}

EmptyObject == [k \in Keys |-> Absent]
InvalidDocument == [valid |-> FALSE, obj |-> EmptyObject]

\* the numeric keys of from_json, in the order it reads them
NumericOrder ==
    <<"nonce", "value", "gasLimit", "maxPriorityFeePerGas", "maxFeePerGas", "chainId">>
NumericNames == {NumericOrder[i] : i \in 1..Len(NumericOrder)}

\* the first document of
\* test_build_for_signing_for_evm_against_allow_using_json_input, with the
\* address of test_build_with_signature_for_evm_against_alloy
FromJsonBase ==
    [EmptyObject EXCEPT
        !["to"] = HexAddress(Addr60),
        !["nonce"] = JString(<<"1">>),
        !["value"] = JString(Hex(<<0, 3, 8, 13, 7, 14, 10, 4, 12, 6, 8, 0, 0, 0>>)),
        !["maxPriorityFeePerGas"] = JString(<<"0", "x", "1">>),
        !["maxFeePerGas"] = JString(<<"0", "x", "1">>),
        !["gasLimit"] = JString(Dec(<<2, 1, 0, 0, 0>>)),
        !["chainId"] = JString(Dec(<<1, 1, 1, 5, 5, 1, 1, 1>>))]

\* the documents handed to from_json: the base document with one key changed
FromJsonDocuments ==
    {[valid |-> TRUE, obj |-> o] : o \in
        {[FromJsonBase EXCEPT !["to"] = v] : v \in ToValues}
        \cup {[FromJsonBase EXCEPT !["nonce"] = v] : v \in Scalars64}
        \cup {[FromJsonBase EXCEPT !["value"] = v] : v \in Scalars128}
        \cup {[FromJsonBase EXCEPT ![k] = v] :
                k \in {"chainId", "gasLimit", "maxFeePerGas", "maxPriorityFeePerGas"},
                v \in FewScalars}
        \cup {[FromJsonBase EXCEPT !["input"] = v] : v \in InputValues}
        \cup {[FromJsonBase EXCEPT ![k1] = Absent, ![k2] = JString(<<"a", "b", "c">>)] :
                k1 \in NumericNames, k2 \in NumericNames}
        \cup {[FromJsonBase EXCEPT !["accessList"] = v, !["to"] = t] :
                v \in {JArray(<<JArray(<<>>)>>), JNull, JString(<<"0", "x">>),
                       JArray(<<JArray(<<NumberArray(Addr60), JArray(<<>>)>>)>>)},
                t \in {HexAddress(Addr60), Absent}}}
    \cup {InvalidDocument}

\* the ethereum_tx of test_deserialize_to_as_array_of_strings
SerdeBase ==
    [EmptyObject EXCEPT
        !["to"] = StringArray(Addr60),
        !["input"] = NumberArray(<<1, 2, 3>>),
        !["nonce"] = JString(<<"0">>),
        !["value"] = JString(<<"0">>),
        !["chain_id"] = JString(Dec(<<4, 2, 1, 6, 1, 4>>)),
        !["gas_limit"] = JString(Dec(<<4, 4, 3, 8, 6>>)),
        !["access_list"] = JArray(<<>>),
        !["max_fee_per_gas"] = JString(Dec(<<2>> \o Rep(0, 10))),
        !["max_priority_fee_per_gas"] = JString(Dec(<<1>> \o Rep(0, 9)))]

\* values of a numeric key of the derived deserializer
SerdeScalars ==
    {JString(t) : t \in {Dec(<<6, 6>>), Hex(<<4, 2>>), <<"a", "b", "c">>, <<>>,
                         <<"+", "6", "6">>, <<"-", "1">>,
                         Dec(<<1, 8, 4, 4, 6, 7, 4, 4, 0, 7, 3, 7, 0, 9, 5, 5, 1, 6, 1, 6>>),
                         Dec(<<3, 4, 0, 2, 8, 2, 3, 6, 6, 9, 2, 0, 9, 3, 8, 4, 6, 3, 4, 6,
                               3, 3, 7, 4, 6, 0, 7, 4, 3, 1, 7, 6, 8, 2, 1, 1, 4, 5, 6>>)}}
    \cup {JString(Dec(<<0, 6, 6>>)), JString(<<" ", "6", "6">>)}
    \cup {JString(t) : t \in Max128}
    \cup {Absent, JNull, JNegInt, JFloat, JArray(<<>>),
          JPosInt(Wide(<<>>, U64)), JPosInt(Wide(<<66>>, U64)), JPosInt(Rep(255, U64))}
    \cup {JLiteral(n) : n \in {Wide(<<66>>, U128), Wide(<<1>> \o Rep(0, U64), U128),
                                Rep(255, U128)}}

\* an access list as the JSON arrays the derived deserializer reads
AccessListValue(list) ==
    JArray([i \in 1..Len(list) |->
        JArray(<<NumberArray(list[i][1]),
                 JArray([j \in 1..Len(list[i][2]) |-> NumberArray(list[i][2][j])])>>)])

\* the documents handed to the derived deserializer
SerdeDocuments ==
    {[valid |-> TRUE, obj |-> o] : o \in
        {[SerdeBase EXCEPT !["to"] = v] : v \in ToValues}
        \cup {[SerdeBase EXCEPT ![k] = v] :
                k \in {"nonce", "value", "chain_id", "gas_limit"}, v \in SerdeScalars}
        \cup {[SerdeBase EXCEPT !["input"] = v] : v \in InputValues}
        \cup {[SerdeBase EXCEPT !["access_list"] = v] :
                v \in {AccessListValue(a) : a \in AccessLists}
                      \cup {Absent, JNull, JArray(<<JArray(<<>>)>>),
                            JArray(<<JArray(<<NumberArray(SubSeq(Addr60, 1, 19)),
                                              JArray(<<>>)>>)>>)}}}
    \cup {InvalidDocument}

\* ------------------------------------------------------------------ state

VARIABLES
    json,       \* Option<document>: the document last handed to an ingestion
    result,     \* Option<outcome>: what that ingestion returned
    tx,         \* Option<EVMTransaction>: the record the caller holds
    signing,    \* Option<Vec<u8>>: what build_for_signing returned for tx
    signature,  \* Option<Signature>: the signature the caller got
    signed      \* Option<Vec<u8>>: what build_with_signature returned

vars == <<json, result, tx, signing, signature, signed>>

Init ==
    /\ json = <<>>
    /\ result = <<>>
    /\ tx = <<>>
    /\ signing = <<>>
    /\ signature = <<>>
    /\ signed = <<>>

\* the caller constructs a record directly
Construct ==
    /\ tx = <<>>
    /\ json = <<>>
    /\ \E t \in Records : tx' = <<t>>
    /\ json' = <<>>
    /\ result' = <<>>
    /\ UNCHANGED <<signing, signature, signed>>

\* EVMTransaction::from_json(json): the caller holds the record of an Ok
FromJson ==
    /\ tx = <<>>
    /\ json = <<>>
    /\ \E doc \in FromJsonDocuments :
        /\ json' = <<doc>>
        /\ result' = <<from_json(doc)>>
        /\ tx' = from_json(doc).rec
    /\ UNCHANGED <<signing, signature, signed>>

\* serde_json::from_str::<EVMTransaction>(json)
Deserialize ==
    /\ tx = <<>>
    /\ json = <<>>
    /\ \E doc \in SerdeDocuments :
        /\ json' = <<doc>>
        /\ result' = <<deserialize(doc)>>
        /\ tx' = deserialize(doc).rec
    /\ UNCHANGED <<signing, signature, signed>>

\* tx.build_for_signing()
BuildForSigning ==
    /\ tx # <<>>
    /\ signing = <<>>
    /\ signing' = <<build_for_signing(tx[1])>>
    /\ UNCHANGED <<json, result, tx, signature, signed>>

\* tx.build_with_signature(&signature), with the signature the signing
\* service returned for the signing payload
BuildWithSignature ==
    /\ tx # <<>>
    /\ signing # <<>>
    /\ signed = <<>>
    /\ \E sig \in Signatures :
        /\ signature' = <<sig>>
        /\ signed' = <<build_with_signature(tx[1], sig)>>
    /\ UNCHANGED <<json, result, tx, signing>>

\* the caller drops the outcome, the record and the payloads
Discard ==
    /\ tx # <<>> \/ json # <<>>
    /\ json' = <<>>
    /\ result' = <<>>
    /\ tx' = <<>>
    /\ signing' = <<>>
    /\ signature' = <<>>
    /\ signed' = <<>>

Next ==
    \/ Construct
    \/ FromJson
    \/ Deserialize
    \/ BuildForSigning
    \/ BuildWithSignature
    \/ Discard

Spec == Init /\ [][Next]_vars

\* ------------------------------------------------------------------ RLP, as the wire format defines it

\* the big-endian bytes of b without its leading zero bytes
Minimal(b) ==
    LET k == CHOOSE k \in 0..Len(b) :
                /\ \A i \in 1..k : b[i] = 0
                /\ k = Len(b) \/ b[k + 1] # 0
    IN  [i \in 1..(Len(b) - k) |-> b[k + i]]

\* the length n of a payload of more than 55 bytes, in big-endian bytes
LengthBytes(n) ==
    IF n < 256 THEN <<n>>
    ELSE IF n < 65536 THEN <<n \div 256, n % 256>>
    ELSE <<n \div 65536, (n \div 256) % 256, n % 256>>

\* the encoding of a byte string
RlpString(b) ==
    IF Len(b) = 1 /\ b[1] < 128 THEN b
    ELSE IF Len(b) <= 55 THEN <<128 + Len(b)>> \o b
    ELSE <<183 + Len(LengthBytes(Len(b)))>> \o LengthBytes(Len(b)) \o b

\* the encoding of a list whose items' encodings, concatenated, are payload
RlpList(payload) ==
    IF Len(payload) <= 55 THEN <<192 + Len(payload)>> \o payload
    ELSE <<247 + Len(LengthBytes(Len(payload)))>>
            \o LengthBytes(Len(payload)) \o payload

\* the encoding of an unsigned integer given by its big-endian bytes
RlpUint(n) == RlpString(Minimal(n))

RECURSIVE Concat(_)
\* the concatenation of a sequence of byte strings
Concat(ss) == IF ss = <<>> THEN <<>> ELSE Head(ss) \o Concat(Tail(ss))

\* the number a big-endian length of at most 3 bytes stands for
LengthOf(bytes) ==
    IF Len(bytes) = 1 THEN bytes[1]
    ELSE IF Len(bytes) = 2 THEN bytes[1] * 256 + bytes[2]
    ELSE bytes[1] * 65536 + bytes[2] * 256 + bytes[3]

\* the header of the item that b begins with: its kind, the length of its
\* prefix and of its payload; ok is FALSE when b holds no whole header
ParseHeader(b) ==
    LET b0 == b[1]
        long == IF b0 < 192 THEN b0 - 183 ELSE b0 - 247
        kind == IF b0 < 192 THEN "string" ELSE "list"
    IN  IF b0 < 128 THEN [kind |-> kind, hdr |-> 0, len |-> 1, ok |-> TRUE]
        ELSE IF b0 < 184 THEN [kind |-> kind, hdr |-> 1, len |-> b0 - 128, ok |-> TRUE]
        ELSE IF b0 >= 192 /\ b0 < 248
        THEN [kind |-> kind, hdr |-> 1, len |-> b0 - 192, ok |-> TRUE]
        ELSE IF long > 3 \/ Len(b) < 1 + long
        THEN [kind |-> kind, hdr |-> 1, len |-> 0, ok |-> FALSE]
        ELSE [kind |-> kind, hdr |-> 1 + long,
              len |-> LengthOf(SubSeq(b, 2, 1 + long)), ok |-> TRUE]

RECURSIVE Items(_)
\* the items that the payload b is the concatenation of, each with its kind,
\* its payload (body) and its whole encoding (raw); an item of kind "bad"
\* ends the sequence when b is no concatenation of items
Items(b) ==
    IF b = <<>> THEN <<>>
    ELSE LET h == ParseHeader(b)
             end == h.hdr + h.len
         IN  IF ~h.ok \/ end > Len(b)
             THEN <<[kind |-> "bad", body |-> <<>>, raw |-> b]>>
             ELSE <<[kind |-> h.kind,
                     body |-> SubSeq(b, h.hdr + 1, end),
                     raw |-> SubSeq(b, 1, end)]>> \o Items(SubSeq(b, end + 1, Len(b)))

\* a payload is typed when it is one byte followed by exactly one list
IsTypedList(out) ==
    /\ Len(out) >= 2
    /\ Len(Items(Tail(out))) = 1
    /\ Items(Tail(out))[1].kind = "list"

\* the payload of the outer list of a typed payload, and its items
OuterPayload(out) == Items(Tail(out))[1].body
Fields(out) == Items(OuterPayload(out))

\* the [address, [storage keys]] entry of one element of an access list
RlpAccess(access) ==
    RlpList(RlpString(access[1])
            \o RlpList(Concat([j \in 1..Len(access[2]) |-> RlpString(access[2][j])])))

\* the nine fields of a record, in the order of the wire format
RlpFields(t) ==
    RlpUint(t.chain_id)
        \o RlpUint(t.nonce)
        \o RlpUint(t.max_priority_fee_per_gas)
        \o RlpUint(t.max_fee_per_gas)
        \o RlpUint(t.gas_limit)
        \o RlpString(IF t.to = <<>> THEN <<>> ELSE t.to[1])
        \o RlpUint(t.value)
        \o RlpString(t.input)
        \o RlpList(Concat([i \in 1..Len(t.access_list) |-> RlpAccess(t.access_list[i])]))

\* TxEip1559::encode_with_signature of the reference encoder: the type byte
\* and one list of the nine fields and of v, r, s, each an integer
ReferenceSigned(t, sig) ==
    <<2>> \o RlpList(RlpFields(t) \o RlpUint(sig.v) \o RlpUint(sig.r) \o RlpUint(sig.s))

\* ------------------------------------------------------------------ claims

\* C1: build_for_signing returns the type byte followed by exactly one list
\* of chain_id, nonce, max_priority_fee_per_gas, max_fee_per_gas, gas_limit,
\* to, value, input and the access list, in this order, the access list
\* with one [address, [storage keys]] entry per element, in the record's
\* order, of raw 20-byte addresses and raw 32-byte keys.
C1_SigningLayout ==
    signing # <<>> =>
        signing[1] = <<EIP_1559_TYPE>> \o RlpList(RlpFields(tx[1]))

\* C1, witness: a signing payload of a record with two access-list entries
\* of two storage keys each, and a long input
C1_Witness ==
    /\ signing # <<>>
    /\ Len(tx[1].access_list) = 2
    /\ Len(tx[1].access_list[1][2]) = 2
    /\ tx[1].input = CallData
    /\ tx[1].to = <<>>

\* C2: build_with_signature emits the type byte and the nine fields of
\* build_for_signing and then v, r, s in the same outer list: v as a minimal
\* big-endian integer, r and s as the byte strings supplied, a leading zero
\* byte kept and no length enforced.
C2_SignedFields ==
    signed # <<>> =>
        /\ IsTypedList(signing[1])
        /\ IsTypedList(signed[1])
        /\ signed[1][1] = signing[1][1]
        /\ LET f == Fields(signing[1])
               g == Fields(signed[1])
           IN  /\ Len(f) = 9
               /\ Len(g) = 12
               /\ SubSeq(g, 1, 9) = f
               /\ g[10] = [kind |-> "string", body |-> Minimal(signature[1].v),
                           raw |-> RlpString(Minimal(signature[1].v))]
               /\ g[11] = [kind |-> "string", body |-> signature[1].r,
                           raw |-> RlpString(signature[1].r)]
               /\ g[12] = [kind |-> "string", body |-> signature[1].s,
                           raw |-> RlpString(signature[1].s)]

\* C2, witness: a signed payload whose r begins with a zero byte and whose s
\* is not 32 bytes long
C2_Witness ==
    /\ signed # <<>>
    /\ signature[1].r = <<0, 9>>
    /\ Len(signature[1].s) = 32

\* C3: with r and s the 32-byte big-endian form of the scalars and v the
\* parity, build_with_signature equals the reference encoder's signed
\* encoding, whose v, r and s are integers.
C3_MatchesReference ==
    (/\ signed # <<>>
     /\ signature[1].v \in {Wide(<<>>, U64), Wide(<<1>>, U64)}
     /\ Len(signature[1].r) = 32
     /\ Len(signature[1].s) = 32)
        => signed[1] = ReferenceSigned(tx[1], signature[1])

\* C4: the payload of the outer list of the signed payload is the payload of
\* the outer list of the signing payload followed by exactly the encodings
\* of v, r, s; both begin with the same type byte; the length prefix of each
\* outer list is the length of its own payload.
C4_RoundTripShape ==
    signed # <<>> =>
        LET a == signing[1]
            b == signed[1]
            ha == ParseHeader(Tail(a))
            hb == ParseHeader(Tail(b))
        IN  /\ a[1] = EIP_1559_TYPE
            /\ b[1] = EIP_1559_TYPE
            /\ ha.ok /\ ha.kind = "list" /\ 1 + ha.hdr + ha.len = Len(a)
            /\ hb.ok /\ hb.kind = "list" /\ 1 + hb.hdr + hb.len = Len(b)
            /\ SubSeq(b, 2 + hb.hdr, Len(b))
                    = SubSeq(a, 2 + ha.hdr, Len(a))
                        \o RlpUint(signature[1].v)
                        \o RlpString(signature[1].r)
                        \o RlpString(signature[1].s)

\* C4, witness: the signing payload's outer list has a one-byte prefix and
\* the signed payload's a longer one
C4_Witness ==
    /\ signed # <<>>
    /\ ParseHeader(Tail(signing[1])).hdr = 1
    /\ ParseHeader(Tail(signed[1])).hdr = 2

\* whether an item is a byte string without a leading zero byte that, read
\* as a big-endian number of the width of n, is n
EncodesMinimally(item, n) ==
    /\ item.kind = "string"
    /\ item.body = <<>> \/ item.body[1] # 0
    /\ Len(item.body) <= Len(n)
    /\ Wide(item.body, Len(n)) = n
    /\ item.raw = RlpString(item.body)
    /\ (\A i \in 1..Len(n) : n[i] = 0) => item.raw = <<128>>
    /\ n = Wide(<<1>>, Len(n)) => item.raw = <<1>>

\* C5: chain_id, nonce, the two fee fields, gas_limit, value and v are each
\* encoded as the minimal big-endian bytes of the number, without a leading
\* zero byte: 0 as the empty byte string, 1 as the single byte 0x01.
C5_MinimalIntegers ==
    /\ signing # <<>> =>
        LET f == Fields(signing[1])
        IN  /\ IsTypedList(signing[1])
            /\ Len(f) = 9
            /\ EncodesMinimally(f[1], tx[1].chain_id)
            /\ EncodesMinimally(f[2], tx[1].nonce)
            /\ EncodesMinimally(f[3], tx[1].max_priority_fee_per_gas)
            /\ EncodesMinimally(f[4], tx[1].max_fee_per_gas)
            /\ EncodesMinimally(f[5], tx[1].gas_limit)
            /\ EncodesMinimally(f[7], tx[1].value)
    /\ signed # <<>> =>
        LET g == Fields(signed[1])
        IN  /\ IsTypedList(signed[1])
            /\ Len(g) = 12
            /\ EncodesMinimally(g[1], tx[1].chain_id)
            /\ EncodesMinimally(g[2], tx[1].nonce)
            /\ EncodesMinimally(g[3], tx[1].max_priority_fee_per_gas)
            /\ EncodesMinimally(g[4], tx[1].max_fee_per_gas)
            /\ EncodesMinimally(g[5], tx[1].gas_limit)
            /\ EncodesMinimally(g[7], tx[1].value)
            /\ EncodesMinimally(g[10], signature[1].v)

\* C5, witness: a signed payload of a record whose value is 1, with v = 0
C5_Witness ==
    /\ signed # <<>>
    /\ tx[1].value = Wide(<<1>>, U128)
    /\ signature[1].v = Wide(<<>>, U64)

\* C6: in both payloads, to = None is encoded as the zero-length byte string
\* and to = Some(addr) as exactly the 20 bytes of addr, the all-zero address
\* included, which stays distinct from the absent one.
C6_AddressAbsence ==
    \A out \in {signing, signed} :
        out # <<>> =>
            LET f == Fields(out[1])
            IN  /\ IsTypedList(out[1])
                /\ Len(f) >= 9
                /\ f[6].kind = "string"
                /\ tx[1].to = <<>> => f[6].body = <<>> /\ f[6].raw = <<128>>
                /\ tx[1].to # <<>> =>
                    /\ f[6].body = tx[1].to[1]
                    /\ f[6].raw = <<128 + 20>> \o tx[1].to[1]

\* C6, witness: both payloads of a record whose to is the all-zero address
C6_Witness ==
    /\ signed # <<>>
    /\ tx[1].to = <<ZeroAddress>>

\* ------------------------------------------------------------------ numbers, as their spellings denote them

RECURSIVE DivTen(_, _)
\* the quotient and the remainder of a big-endian number by ten, the
\* remainder rem of the bytes before carried in
DivTen(b, rem) ==
    IF b = <<>> THEN [q |-> <<>>, r |-> rem]
    ELSE LET cur == rem * 256 + Head(b)
             rest == DivTen(Tail(b), cur % 10)
         IN  [q |-> <<cur \div 10>> \o rest.q, r |-> rest.r]

RECURSIVE DecimalDigits(_)
DecimalDigits(b) ==
    IF \A i \in 1..Len(b) : b[i] = 0 THEN <<>>
    ELSE Append(DecimalDigits(DivTen(b, 0).q), DivTen(b, 0).r)

\* a sequence of digits without its leading zeros, one digit kept
Canonical(ds) == IF Minimal(ds) = <<>> THEN <<0>> ELSE Minimal(ds)

\* the decimal digits and the hexadecimal digits of a big-endian number
DecimalOf(b) == Canonical(DecimalDigits(b))
HexOf(b) == Canonical(Nibbles(b))

DecimalChars == {LowerDigits[i] : i \in 1..10}
HexChars == {LowerDigits[i] : i \in 1..16} \cup {UpperDigits[i] : i \in 1..16}
DigitOf(c) == CHOOSE d \in 0..15 : LowerDigits[d + 1] = c \/ UpperDigits[d + 1] = c

\* a decimal string, and a 0x-prefixed hexadecimal string
IsDecimalText(t) == t # <<>> /\ \A i \in 1..Len(t) : t[i] \in DecimalChars
IsHexText(t) ==
    /\ Len(t) > 2
    /\ t[1] = "0"
    /\ t[2] = "x"
    /\ \A i \in 3..Len(t) : t[i] \in HexChars
IsNumberText(t) == IsDecimalText(t) \/ IsHexText(t)

\* the digits of a number text, without leading zeros
DigitsOfText(t) ==
    IF IsDecimalText(t) THEN Canonical([i \in 1..Len(t) |-> DigitOf(t[i])])
    ELSE Canonical([i \in 1..(Len(t) - 2) |-> DigitOf(t[i + 2])])

\* a <= b for two sequences of digits of the same length
LexLeq(a, b) ==
    \/ a = b
    \/ \E i \in 1..Len(a) : a[i] < b[i] /\ \A j \in 1..(i - 1) : a[j] = b[j]

\* the decimal digits of the largest number of 8 and of 16 bytes
MaxDecimal64 == DecimalOf(Rep(255, U64))
MaxDecimal128 == DecimalOf(Rep(255, U128))

\* whether the number a text denotes fits w bytes
Fits(t, w) ==
    LET d == DigitsOfText(t)
        max == IF w = U64 THEN MaxDecimal64 ELSE MaxDecimal128
    IN  IF IsDecimalText(t)
        THEN Len(d) < Len(max) \/ (Len(d) = Len(max) /\ LexLeq(d, max))
        ELSE Len(d) <= 2 * w

\* whether the field's value is the number the text denotes
Denotes(t, field) ==
    IF IsDecimalText(t) THEN DecimalOf(field) = DigitsOfText(t)
    ELSE HexOf(field) = DigitsOfText(t)

\* the numeric keys of from_json, each with its field and its width
NumericKeys ==
    {<<"nonce", "nonce", U64>>, <<"chainId", "chain_id", U64>>,
     <<"value", "value", U128>>, <<"gasLimit", "gas_limit", U128>>,
     <<"maxFeePerGas", "max_fee_per_gas", U128>>,
     <<"maxPriorityFeePerGas", "max_priority_fee_per_gas", U128>>}

\* C7: from_json parses nonce and chainId as unsigned 64-bit and value,
\* gasLimit, maxFeePerGas, maxPriorityFeePerGas as unsigned 128-bit from a
\* decimal or a 0x-prefixed hexadecimal string: the field is the number the
\* string denotes, so both spellings of a number give the same value
\* ("66" and "0x42" give nonce 66), and a string denoting a number that
\* does not fit the width is rejected, never wrapped or truncated.  Stated
\* of the outcome as from_json returns it, before the record is encoded.
C7_NumericFlexibility ==
    (/\ result # <<>>
     /\ result[1].op = "from_json"
     /\ json[1].valid
     /\ signing = <<>>) =>
        LET r == result[1]
            o == json[1].obj
            Numeric(k) == o[k[1]].t = "string" /\ IsNumberText(o[k[1]].s)
        IN  /\ \A k \in NumericKeys :
                Numeric(k) =>
                    IF Fits(o[k[1]].s, k[3])
                    THEN r.kind = "Ok" => Denotes(o[k[1]].s, r.rec[1][k[2]])
                    ELSE r.kind # "Ok"
            /\ (/\ \A k \in NumericKeys : Numeric(k) /\ Fits(o[k[1]].s, k[3])
                /\ o["to"] = FromJsonBase["to"]
                /\ o["input"] = FromJsonBase["input"])
                    => r.kind = "Ok"
            /\ o["nonce"] \in {JString(<<"6", "6">>), JString(<<"0", "x", "4", "2">>)}
                    => r.kind = "Ok" /\ r.rec[1].nonce = Wide(<<66>>, U64)

\* C7, witness: the nonce "0x42" was ingested as 66
C7_Witness ==
    /\ result # <<>>
    /\ result[1].op = "from_json"
    /\ json[1].obj["nonce"] = JString(<<"0", "x", "4", "2">>)
    /\ tx # <<>>
    /\ tx[1].nonce = Wide(<<66>>, U64)

\* C8: the three JSON encodings of an address (a 0x-prefixed string of 40
\* hex digits, an array of 20 integers, an array of 20 decimal strings) all
\* ingest to the same 20-byte to of the record.
C8_IngestionEquivalence ==
    (result # <<>> /\ json[1].valid) =>
        \A addr \in Addresses :
            json[1].obj["to"] \in Encodings(addr) =>
                result[1].kind = "Ok" /\ result[1].rec[1].to = <<addr>>

\* a text that, surrounding spaces apart, is a decimal number of 0..255,
\* with or without a plus sign
IsByteText(text) ==
    LET core == IF \A i \in 1..Len(text) : text[i] = " " THEN <<>>
                ELSE LET i == CHOOSE i \in 1..Len(text) :
                                text[i] # " " /\ \A k \in 1..(i - 1) : text[k] = " "
                         j == CHOOSE j \in 1..Len(text) :
                                text[j] # " " /\ \A k \in (j + 1)..Len(text) : text[k] = " "
                     IN  SubSeq(text, i, j)
        digits == IF core # <<>> /\ core[1] = "+" THEN Tail(core) ELSE core
        d == DigitsOfText(digits)
    IN  /\ IsDecimalText(digits)
        /\ Len(d) <= 3
        /\ (IF Len(d) = 3 THEN 100 * d[1] + 10 * d[2] + d[3] ELSE 0) <= 255

C10_NoTruncation ==
    (/\ result # <<>>
     /\ result[1].op = "deserialize"
     /\ result[1].kind = "Ok"
     /\ json[1].obj["to"].t = "array"
     /\ \A i \in 1..Len(json[1].obj["to"].a) : json[1].obj["to"].a[i].t = "posint") =>
        \A i \in 1..Len(json[1].obj["to"].a) :
            json[1].obj["to"].a[i].n = Wide(<<result[1].rec[1].to[1][i]>>, U64)

\* C11: ingesting a document whose to is JSON null yields a record whose to
\* is absent (None), through from_json as through the derived deserializer;
\* null is never replaced by a concrete address.
C11_NullIsAbsent ==
    (/\ result # <<>>
     /\ json[1].valid
     /\ json[1].obj["to"] = JNull
     /\ \A k \in Keys \ {"to"} :
            json[1].obj[k] = (IF result[1].op = "from_json" THEN FromJsonBase
                             ELSE SerdeBase)[k]) =>
        /\ result[1].kind = "Ok"
        /\ result[1].rec[1].to = <<>>
        /\ tx = result[1].rec

\* a text with the "+" that Rust's integer grammar allows in front of the
\* digits (after the 0x of a hexadecimal text) dropped
Unsigned(t) ==
    IF t # <<>> /\ t[1] = "+" THEN Tail(t)
    ELSE IF Len(t) > 2 /\ t[1] = "0" /\ t[2] = "x" /\ t[3] = "+"
    THEN <<"0", "x">> \o SubSeq(t, 4, Len(t))
    ELSE t

\* whether a text is a number of the width w
Parseable(t, w) == IsNumberText(Unsigned(t)) /\ Fits(Unsigned(t), w)

\* the width from_json parses a numeric key at
WidthOf(key) == IF key \in {"nonce", "chainId"} THEN U64 ELSE U128

\* whether a document's value of a numeric key is missing, no string, or
\* an unparseable string
Offending(obj, key) ==
    obj[key].t # "string" \/ ~Parseable(obj[key].s, WidthOf(key))

\* C12: when any of nonce, value, gasLimit, maxPriorityFeePerGas,
\* maxFeePerGas, chainId is missing, is no JSON string, or is an
\* unparseable numeric string, from_json aborts with a failure that names
\* the offending field (the first one in reading order) and returns no
\* record: none partially filled, none with a defaulted field.
C12_NoPartialRecord ==
    (/\ result # <<>>
     /\ result[1].op = "from_json"
     /\ json[1].valid
     /\ \E k \in NumericNames : Offending(json[1].obj, k)) =>
        LET o == json[1].obj
            r == result[1]
            first == CHOOSE i \in 1..Len(NumericOrder) :
                        /\ Offending(o, NumericOrder[i])
                        /\ \A j \in 1..(i - 1) : ~Offending(o, NumericOrder[j])
            key == NumericOrder[first]
        IN  /\ r.kind # "Ok"
            /\ r.rec = <<>>
            /\ tx = <<>>
            /\ r.msg[1] \in {key, "to"}
            /\ r.msg[1] = key =>
                    r.msg[2] = (IF o[key].t # "string" THEN "should be provided"
                                ELSE IF WidthOf(key) = U64 THEN "should be a valid u64"
                                ELSE "should be a valid u128")

\* C12, witness: gasLimit was missing and chainId unparseable, and from_json
\* failed naming gasLimit
C12_Witness ==
    /\ result # <<>>
    /\ result[1].op = "from_json"
    /\ json[1].obj["gasLimit"] = Absent
    /\ json[1].obj["chainId"] = JString(<<"a", "b", "c">>)
    /\ result[1].kind = "Panic"
    /\ result[1].msg = <<"gasLimit", "should be provided">>
    /\ tx = <<>>

\* the numeric keys of the derived deserializer, each with its width
SerdeNumericKeys ==
    {<<"nonce", U64>>, <<"chain_id", U64>>, <<"value", U128>>, <<"gas_limit", U128>>,
     <<"max_fee_per_gas", U128>>, <<"max_priority_fee_per_gas", U128>>}

\* a decimal string: decimal digits, with the "+" that the decimal grammar
\* of Rust allows in front
IsDecimalString(v) == v.t = "string" /\ IsDecimalText(Unsigned(v.s))

\* whether a JSON value is a native non-negative integer or a decimal
\* string of a number that fits w bytes
Acceptable(v, w) ==
    \/ v.t = "posint"
    \/ v.t = "float" /\ v.n # <<>> /\ w = U128
    \/ IsDecimalString(v) /\ Fits(Unsigned(v.s), w)

\* whether a field of w bytes is the number an acceptable value denotes
DenotedBy(v, field, w) ==
    IF v.t = "posint" THEN field = Wide(v.n, w)
    ELSE IF v.t = "float" THEN field = v.n
    ELSE DecimalOf(field) = DigitsOfText(Unsigned(v.s))

\* C13: deserialize_u64 and deserialize_u128 accept a native non-negative
\* JSON number or a decimal string and return exactly the number denoted;
\* every other input (a 0x-prefixed hexadecimal string, a negative number,
\* a non-numeric string, a number beyond the width, null, an array) fails
\* with an error instead of returning a value.
C13_ScalarDeserializers ==
    (/\ result # <<>>
     /\ result[1].op = "deserialize"
     /\ json[1].valid
     /\ signing = <<>>) =>
        LET o == json[1].obj
            r == result[1]
        IN  /\ r.kind \in {"Ok", "Err"}
            /\ \A k \in SerdeNumericKeys :
                    IF Acceptable(o[k[1]], k[2])
                    THEN r.kind = "Ok" => DenotedBy(o[k[1]], r.rec[1][k[1]], k[2])
                    ELSE r.kind = "Err" /\ r.rec = <<>> /\ tx = <<>>
            /\ (/\ \A k \in SerdeNumericKeys : Acceptable(o[k[1]], k[2])
                /\ \A key \in {"to", "input", "access_list"} : o[key] = SerdeBase[key])
                    => r.kind = "Ok"

\* C14: from_json sets the record's input to the bytes that the 0x-prefixed
\* hexadecimal string under the key input spells, and to the empty byte
\* sequence exactly when input is absent (null, or the string "0x" of no
\* bytes, taken as absent too); a present input string is never silently
\* replaced by the empty byte sequence.
C14_InputDecoded ==
    (/\ result # <<>>
     /\ result[1].op = "from_json"
     /\ result[1].kind = "Ok") =>
        LET v == json[1].obj["input"]
            input == result[1].rec[1].input
        IN  /\ (v.t = "string" /\ IsHexText(v.s)) =>
                    /\ 2 * Len(input) = Len(v.s) - 2
                    /\ \A i \in 1..Len(input) :
                            input[i] = 16 * DigitOf(v.s[2 * i + 1]) + DigitOf(v.s[2 * i + 2])
            /\ v.t = "absent" => input = <<>>
            /\ input = <<>> => v \in {Absent, JNull, JString(<<"0", "x">>)}

\* C15: every record that from_json returns has to present (Some) and
\* access_list empty, whatever the document holds: when the to key is
\* missing, null, no string, or a string without the 0x prefix, the
\* ingestion goes on as with the all-zero address (no None, no failure
\* because of to), and the accessList key is never read: the outcome is
\* that of the document without it.  Stated of the outcome as from_json
\* returns it, before the record is encoded.
C15_ToPresentAccessEmpty ==
    (/\ result # <<>>
     /\ result[1].op = "from_json"
     /\ json[1].valid
     /\ signing = <<>>) =>
        LET o == json[1].obj
            r == result[1]
            NoPrefix == o["to"].t # "string" \/ StripPrefix0x(o["to"].s) = <<>>
        IN  /\ r.kind = "Ok" =>
                /\ Len(r.rec[1].to) = 1
                /\ r.rec[1].access_list = <<>>
                /\ tx = r.rec
            /\ NoPrefix =>
                /\ ~(r.kind = "Panic" /\ r.msg[1] = "to")
                /\ r.kind = "Ok" => r.rec[1].to = <<ZeroAddress>>
                /\ (\A k \in Keys \ {"to", "accessList"} : o[k] = FromJsonBase[k])
                        => r.kind = "Ok"
            /\ r = from_json([json[1] EXCEPT !.obj["accessList"] = Absent])

\* C15, witness: a to without the 0x prefix and an accessList in the
\* document gave a record with the zero address and no access list
C15_Witness ==
    /\ result # <<>>
    /\ result[1].op = "from_json"
    /\ json[1].obj["to"] \in {Absent, JString(Dec(Nibbles(Addr60)))}
    /\ json[1].obj["accessList"].t = "array"
    /\ result[1].kind = "Ok"
    /\ tx # <<>>
    /\ tx[1].to = <<ZeroAddress>>
    /\ tx[1].access_list = <<>>

====
